---- MODULE Spec2Model ----
(***************************************************************************)
(* Model of salt/utils/openstack/nova.py (class SaltNova): the three       *)
(* polling loops (boot, volume_attach, volume_detach), the look-ups they   *)
(* make before polling, and server_list_detailed / server_show /           *)
(* server_show_libcloud.                                                   *)
(*                                                                         *)
(* One SaltNova object is modelled.  Operations run one at a time; a       *)
(* polling operation runs through the positions                            *)
(*   "check"  top of `while True`, about to do trycount += 1 and the try   *)
(*   "sleep"  inside the except handler, about to call time.sleep(1)       *)
(*   "test"   after the sleep, about to evaluate time.time()-start>timeout  *)
(*   "done"   the call has returned or raised                              *)
(* The log line that opens the except handler formats the exception (boot) *)
(* or the volume name (volume_attach / volume_detach) and can itself raise.*)
(* The remote cloud is the environment: each remote call either raises or  *)
(* answers with a value drawn from a small set, and takes some time.       *)
(***************************************************************************)
EXTENDS Integers, Sequences, FiniteSets, TLC

(* ---------------------------- bounds ----------------------------------- *)
MaxTimeout == 2
MaxCheckDur == 2
MaxCalls == 2

(* time.sleep(1) *)
PollInterval == 1

Timeouts == 0..MaxTimeout
Durations == 0..MaxCheckDur
(* attempts explored per invocation; an always-failing run needs at most   *)
(* MaxTimeout + 1 of them                                                  *)
MaxTries == MaxTimeout + 1
(* end of the explored time line of one call: an always-failing run ends  *)
(* by MaxTimeout + PollInterval + MaxCheckDur                              *)
MaxTime == MaxTimeout + PollInterval + MaxCheckDur

ServerIds == {"s1", "s2"}
(* what servers.create can answer: a Server object with the new server's  *)
(* id and, unless the cloud withholds it, the attribute adminPass          *)
CreateResponses == {[id |-> "s1", adminPass |-> "pw1"],
                    [id |-> "s2", adminPass |-> "pw2"],
                    [id |-> "s2"]}
ServerStatuses == {"BUILD", "ACTIVE"}
VolumeStatuses == {"available", "attaching", "in-use", "detaching"}
VolumeId == "v1"

(* optional keys of a novaclient Server object's __dict__ that             *)
(* server_list_detailed looks for                                          *)
OptionalKeys ==
  {"OS-DCF:diskConfig", "OS-EXT-SRV-ATTR:host",
   "OS-EXT-SRV-ATTR:hypervisor_hostname", "OS-EXT-SRV-ATTR:instance_name",
   "OS-EXT-STS:power_state", "OS-EXT-STS:task_state", "OS-EXT-STS:vm_state",
   "security_groups"}

(* the key sets a Server object's __dict__ is drawn from *)
DictKeySets == {{}, {"OS-DCF:diskConfig", "security_groups"}, OptionalKeys}

(* attribute names of a Python dict object (Python 2) *)
DictAttrs ==
  {"clear", "copy", "fromkeys", "get", "has_key", "items", "iteritems",
   "iterkeys", "itervalues", "keys", "pop", "popitem", "setdefault",
   "update", "values", "__class__", "__contains__", "__getitem__",
   "__len__", "__iter__", "__setitem__", "__delitem__"}

(* one Server object as nt_ks.servers.list() yields it; name is unique *)
ServerName(id) == IF id = "s1" THEN "web" ELSE "db"
ServerObjects ==
  { [id |-> i, name |-> ServerName(i), status |-> s,
     dict |-> [k \in ks |-> "val"]] :
      i \in ServerIds, s \in ServerStatuses, ks \in DictKeySets }

(* what nt_ks.servers.list() can answer: sets of servers with distinct ids *)
Listings ==
  { l \in SUBSET ServerObjects :
      /\ Cardinality(l) <= 2
      /\ \A a, b \in l : a.id = b.id => a = b }

(* what nt_ks.servers.list() answers to the look-up of volume_attach /     *)
(* volume_detach: servers in service, without optional keys                *)
LookupListings ==
  { l \in Listings : \A item \in l : item.status = "ACTIVE" /\ DOMAIN item.dict = {} }

(* what nt_ks.volumes.list(search_opts) can answer: no volume, or the one  *)
(* volume of that name, attached or not                                    *)
VolumeObjects ==
  { [id |-> VolumeId, attachments |-> a] : a \in {<<>>, <<[id |-> "att1"]>>} }
VolumeListings == {<<>>} \cup { <<v>> : v \in VolumeObjects }
(* volume_attach is explored for volumes that are not attached yet *)
FreeVolumeListings ==
  { vs \in VolumeListings : \A i \in 1..Len(vs) : vs[i].attachments = <<>> }

(* the server name volume_attach / volume_detach are called with *)
ServerNameArg == "web"

(* Python 2 text: a byte string (str) or a unicode string, with the values *)
(* of its bytes or code points                                             *)
Bytes(chars) == [unicode |-> FALSE, chars |-> chars]
Unicode(chars) == [unicode |-> TRUE, chars |-> chars]
NoText == Bytes(<<>>)

(* the volume name volume_attach / volume_detach are called with:          *)
(* 'vol' or u'vol\xe9'                                                     *)
VolumeNames == {Bytes(<<118, 111, 108>>), Unicode(<<118, 111, 108, 233>>)}

(* str(exc) of the IndexError of `server_info.values()[0]`:                *)
(* 'list index out of range'                                               *)
IndexErrorMessage ==
  Bytes(<<108, 105, 115, 116, 32, 105, 110, 100, 101, 120, 32, 111, 117, 116,
          32, 111, 102, 32, 114, 97, 110, 103, 101>>)

(* the message of an exception of the remote client, built from the        *)
(* response body: 'r\xc3\xa9seau' (UTF-8 bytes), u'err' or u'r\xe9seau'     *)
RemoteMessages ==
  {Bytes(<<114, 195, 169, 115, 101, 97, 117>>), Unicode(<<101, 114, 114>>),
   Unicode(<<114, 233, 115, 101, 97, 117>>)}

VARIABLES
  response,      \* what the latest servers.create that returned answered
  latest_adminPass, \* adminPass of the latest answer that carried one
  volume,        \* local `volume` of volume_attach / volume_detach
  name_arg,      \* argument `name` of volume_attach / volume_detach
  server_map,    \* local `server` of volume_attach / volume_detach
  pc,            \* position of the running operation
  op,            \* operation running or last run
  timeout,       \* its timeout argument
  now,           \* time.time(), counted from the entry of the running call
  start,         \* local `start`
  trycount,      \* local `trycount`
  polling,       \* TRUE once `start = time.time()` has run in this call
  issued,        \* mutating remote requests issued by this call
  sleeps,        \* time.sleep(1) calls made by this call
  fails,         \* status checks of this call that raised
  durs,          \* durations of the checks that raised before any succeeded
  last,          \* what the latest status check did
  outcome,       \* "none", "Ready", "TimedOut", "Raised", "Returned"
  ret,           \* value returned by the call
  arg,           \* servers.list() answer given to server_list_detailed
  self_uuid,     \* self.uuid    ("unset": attribute absent)
  self_password, \* self.password ("unset": attribute absent)
  calls,         \* polling operations invoked so far
  prev           \* summary of the previous polling operation

vars == <<pc, op, timeout, now, start, trycount, polling, issued, sleeps,
          fails, durs, last, outcome, ret, arg, self_uuid,
          self_password, calls, prev, volume, server_map, response,
                 name_arg, latest_adminPass>>

RECURSIVE Sum(_)
Sum(s) == IF s = <<>> THEN 0 ELSE Head(s) + Sum(Tail(s))

RECURSIVE MaxDur(_)
MaxDur(s) ==
  IF s = <<>> THEN 0
  ELSE LET m == MaxDur(Tail(s)) IN IF Head(s) > m THEN Head(s) ELSE m

NoRet == [kind |-> "none"]
FalseRet == [kind |-> "False"]
NoResponse == [id |-> "unset", adminPass |-> "unset"]
NoLast == [kind |-> "none", why |-> "none", status |-> "none"]
NoPrev == [op |-> "none", timeout |-> 0, allFailed |-> FALSE, dur |-> 0,
           trycount |-> 0, outcome |-> "none"]

(* every check of the sequence of durations s took d *)
Uniform(s, d) == \A i \in 1..Len(s) : s[i] = d

(* ------------------------- pure functions ------------------------------ *)

(* hasattr(item.__dict__, name): item.__dict__ is a dict object, so the    *)
(* question is whether dict objects have an attribute called name          *)
hasattr_key(mapping, name) == name \in DOMAIN mapping
hasattr(mapping, name) == name \in DictAttrs

SrvAttrKeys == {"host", "hypervisor_hostname", "instance_name"}
StsKeys == {"power_state", "task_state", "vm_state"}

(* the entry server_list_detailed builds for one Server object *)
DetailedEntry(item) ==
  LET d == item.dict
      base == [k \in {"id", "name", "status"} |->
                 IF k = "id" THEN item.id
                 ELSE IF k = "name" THEN item.name ELSE item.status]
      srvattr == { k \in SrvAttrKeys :
                     hasattr(d, "OS-EXT-SRV-ATTR:" \o k) }
      sts == { k \in StsKeys : hasattr(d, "OS-EXT-STS:" \o k) }
      dcf == IF hasattr(d, "OS-DCF:diskConfig")
             THEN [k \in {"OS-DCF"} |-> d["OS-DCF:diskConfig"]]
             ELSE <<>>
      sec == IF hasattr(d, "security_groups")
             THEN [k \in {"security_groups"} |-> d["security_groups"]]
             ELSE <<>>
  IN  [fields |-> base,
       srv_attr |-> [k \in srvattr |-> d["OS-EXT-SRV-ATTR:" \o k]],
       sts |-> [k \in sts |-> d["OS-EXT-STS:" \o k]],
       optional |-> dcf @@ sec]

(* server_list_detailed: a mapping from server name to its entry *)
server_list_detailed(listing) ==
  [n \in {item.name : item \in listing} |->
     DetailedEntry(CHOOSE item \in listing : item.name = n)]

(* server_show: the entries whose id is server_id *)
server_show(listing, server_id) ==
  LET all == server_list_detailed(listing)
  IN  [n \in {m \in DOMAIN all : all[m].fields["id"] = server_id} |-> all[n]]

(* if hasattr(self, 'password'): ret['extra']['password'] = self.password  *)
(* ("unset": no such attribute, and no such key in the result)             *)
libcloud_password_none(password) == "unset"
libcloud_password(password) == password

(* server_show_libcloud: raises IndexError on an empty server_show answer *)
server_show_libcloud(listing, uuid, password) ==
  LET info == server_show(listing, uuid)
  IN  IF DOMAIN info = {}
      THEN [raised |-> TRUE, exc |-> "IndexError", value |-> NoRet,
            message |-> IndexErrorMessage]
      ELSE LET name == CHOOSE n \in DOMAIN info : TRUE
               server == info[name]
           IN  [raised |-> FALSE, exc |-> "none", message |-> NoText,
                value |-> [kind |-> "server",
                           id |-> server.fields["id"],
                           name |-> name,
                           state |-> server.fields["status"],
                           has_password |-> libcloud_password(password) # "unset",
                           password |-> libcloud_password(password)]]

(* volume_show: False when the list is empty (IndexError on volumes[0]),   *)
(* else the mapping built from the first volume                            *)
volume_show(volumes) ==
  IF Len(volumes) = 0 THEN FalseRet
  ELSE [kind |-> "volume", id |-> volumes[1].id,
        attachments |-> volumes[1].attachments]

(* server_list: a mapping from server name to id, name and status *)
server_list(listing) ==
  [n \in {item.name : item \in listing} |->
     LET item == CHOOSE i \in listing : i.name = n
     IN  [k \in {"id", "name", "status"} |->
            IF k = "id" THEN item.id
            ELSE IF k = "name" THEN item.name ELSE item.status]]

(* server_by_name: self.server_list().get(name, {}) *)
server_by_name(listing, name) ==
  LET servers == server_list(listing)
  IN  IF name \in DOMAIN servers THEN servers[name] ELSE <<>>

(* object.attr raises AttributeError when the object has no such attribute *)
getattr_raises(object, attr) == attr \notin DOMAIN object

(* value[key] raises when value has no such key: KeyError on the empty     *)
(* mapping, TypeError on False                                             *)
subscript_raises_never(value, key) == FALSE
subscript_raises(value, key) == key \notin DOMAIN value

(* value[key][0] raises: as value[key] does, or IndexError on an empty list *)
first_raises(value, key) ==
  IF key \in DOMAIN value THEN Len(value[key]) = 0 ELSE TRUE

(* _volume_get: the mapping built from the volume the remote answers with *)
volume_get(volume_id, status) ==
  [kind |-> "volume", id |-> volume_id, status |-> status]

(* the status the loop of volume_attach / volume_detach waits for *)
Target_swapped(o) == IF o = "volume_attach" THEN "available" ELSE "in-use"
Target(o) == IF o = "volume_attach" THEN "in-use" ELSE "available"

(* boot returns whatever server_show_libcloud returned *)
boot_ready_active(server) == server.state = "ACTIVE"
boot_ready(server) == TRUE

(* `except Exception` around the status check *)
Caught(exc) == TRUE

(* '...{0}'.format(value) with a byte-string template (Python 2): the      *)
(* value is converted with str(), which encodes a unicode string as ASCII  *)
(* and raises UnicodeEncodeError on a code point above 127; a byte string  *)
(* is copied as it is                                                      *)
format_raises(text) ==
  text.unicode /\ \E i \in 1..Len(text.chars) : text.chars[i] > 127

(* time.time() - start > timeout *)
Expired(elapsed, t) == elapsed > t

(* `trycount = 0` before `while True`: the count an invocation starts     *)
(* from, whatever the previous invocation (p) counted                      *)
FirstTry(p) == 0

(* the body of `while True` holds no servers.create, create_server_volume *)
(* or delete_server_volume: a pass through it leaves the number of         *)
(* mutating requests issued (n) as it was                                  *)
requests_after_pass_retry(n) == n + 1
requests_after_pass(n) == n

(* ------------------------------ state ---------------------------------- *)

Init ==
  /\ pc = "idle"
  /\ op = "none"
  /\ timeout = 0
  /\ now = 0
  /\ start = 0
  /\ trycount = 0
  /\ polling = FALSE
  /\ issued = 0
  /\ sleeps = 0
  /\ fails = 0
  /\ durs = <<>>
  /\ last = NoLast
  /\ outcome = "none"
  /\ ret = NoRet
  /\ arg = {}
  /\ self_uuid = "unset"
  /\ self_password = "unset"
  /\ calls = 0
  /\ prev = NoPrev
  /\ volume = NoRet
  /\ server_map = <<>>
  /\ response = NoResponse
  /\ latest_adminPass = "unset"
  /\ name_arg = NoText

(* what the latest polling operation did, kept for the next one to be      *)
(* compared with: recorded for a run whose checks all raised and all took  *)
(* the same time                                                           *)
Summary ==
  IF ~polling THEN prev
  ELSE IF pc = "done" /\ trycount > 0 /\ fails = trycount /\ Uniform(durs, durs[1])
  THEN [op |-> op, timeout |-> timeout, allFailed |-> TRUE, dur |-> durs[1],
        trycount |-> trycount, outcome |-> outcome]
  ELSE NoPrev

PollingOps == {"boot", "volume_attach", "volume_detach"}

Callable == pc \in {"idle", "done"}

(* entry of any method: fresh locals, nothing returned yet *)
Enter(o, t) ==
  /\ Callable
  /\ op' = o
  /\ timeout' = t
  /\ prev' = IF o \in PollingOps /\ (Summary.op # o \/ Summary.timeout # t)
             THEN NoPrev      \* a different operation or timeout: no comparison
             ELSE Summary
  /\ sleeps' = 0
  /\ fails' = 0
  /\ durs' = <<>>
  /\ last' = NoLast
  /\ now' = 0

(* the call ends with an exception before its loop was reached *)
RaiseBeforePolling(n) ==
  /\ pc' = "done"
  /\ outcome' = "Raised"
  /\ ret' = NoRet
  /\ polling' = FALSE
  /\ issued' = n
  /\ start' = 0
  /\ trycount' = 0

(* `trycount = 0` / `start = time.time()`, then `while True` *)
BeginPolling ==
  /\ pc' = "check"
  /\ outcome' = "none"
  /\ ret' = NoRet
  /\ polling' = TRUE
  /\ issued' = 1
  /\ trycount' = FirstTry(prev')
  /\ start' = now'

(* boot(name, timeout): servers.create, remember id and password, poll *)
boot ==
  \E created \in CreateResponses, t \in Timeouts, createFails \in BOOLEAN :
    /\ calls < MaxCalls
    /\ Enter("boot", t)
    /\ calls' = calls + 1
    /\ arg' = {}
    /\ volume' = NoRet
    /\ server_map' = <<>>
    /\ name_arg' = NoText
    /\ IF createFails
       THEN /\ RaiseBeforePolling(1)
            /\ UNCHANGED <<self_uuid, self_password, response,
                           latest_adminPass>>
       ELSE /\ response' = created
            /\ self_uuid' = response'.id
            /\ IF getattr_raises(response', "adminPass")
               THEN /\ RaiseBeforePolling(1)   \* response.adminPass raises
                    /\ UNCHANGED <<self_password, latest_adminPass>>
               ELSE /\ self_password' = response'.adminPass
                    /\ latest_adminPass' = created.adminPass
                    /\ BeginPolling

(* volume_attach(name, server_name, timeout) *)
volume_attach ==
  \E t \in Timeouts, requestFails \in BOOLEAN, name \in VolumeNames,
     found \in { volume_show(volumes) : volumes \in FreeVolumeListings },
     named \in { server_by_name(listing, ServerNameArg) : listing \in LookupListings } :
    /\ calls < MaxCalls
    /\ Enter("volume_attach", t)
    /\ calls' = calls + 1
    /\ arg' = {}
    /\ UNCHANGED <<self_uuid, self_password, response, latest_adminPass>>
    /\ name_arg' = name
    /\ volume' = found
    /\ server_map' = named
    /\ IF subscript_raises(server_map', "id") \/ subscript_raises(volume', "id")
       THEN RaiseBeforePolling(0)     \* server['id'] or volume['id'] raises
       ELSE IF requestFails
       THEN RaiseBeforePolling(1)     \* create_server_volume raises
       ELSE BeginPolling

(* volume_detach(name, server_name, timeout) *)
volume_detach ==
  \E t \in Timeouts, requestFails \in BOOLEAN, name \in VolumeNames,
     found \in { volume_show(volumes) : volumes \in VolumeListings },
     named \in { server_by_name(listing, ServerNameArg) : listing \in LookupListings } :
    /\ calls < MaxCalls
    /\ Enter("volume_detach", t)
    /\ calls' = calls + 1
    /\ arg' = {}
    /\ UNCHANGED <<self_uuid, self_password, response, latest_adminPass>>
    /\ name_arg' = name
    /\ volume' = found
    /\ server_map' = named
    /\ IF subscript_raises(server_map', "id") \/ first_raises(volume', "attachments")
       THEN RaiseBeforePolling(0)     \* server['id'] or volume['attachments'][0] raises
       ELSE IF requestFails
       THEN RaiseBeforePolling(1)     \* delete_server_volume raises
       ELSE BeginPolling

(* one pass through `trycount += 1; try: ...` up to the log line of the     *)
(* handler, given what the status check did (r), whether its answer ends   *)
(* the loop (ready), how long it took (d) and the text the handler's log   *)
(* line formats (logged)                                                   *)
Attempt(r, ready, d, logged) ==
  /\ trycount' = trycount + 1
  /\ now' = now + d
  /\ last' = [kind |-> IF r.raised THEN "error" ELSE "ok",
              why |-> r.exc,
              status |-> IF r.raised THEN "none"
                         ELSE IF r.value.kind = "server" THEN r.value.state
                         ELSE r.value.status]
  /\ fails' = IF r.raised THEN fails + 1 ELSE fails
  /\ durs' = IF r.raised /\ fails = trycount THEN Append(durs, d) ELSE durs
  /\ IF ~r.raised
     THEN IF ready
          THEN pc' = "done" /\ outcome' = "Ready" /\ ret' = r.value
          ELSE pc' = "check" /\ UNCHANGED <<outcome, ret>>
     ELSE IF Caught(r.exc) /\ ~format_raises(logged)
          THEN pc' = "sleep" /\ UNCHANGED <<outcome, ret>>
          ELSE pc' = "done" /\ outcome' = "Raised" /\ ret' = NoRet
  /\ issued' = requests_after_pass(issued)
  /\ UNCHANGED <<op, timeout, start, polling, sleeps, arg, self_uuid,
                 self_password, calls, prev, volume, server_map, response,
                 name_arg, latest_adminPass>>

(* the remote call raises an exception with the given message *)
RemoteError(message) ==
  [raised |-> TRUE, exc |-> "RemoteError", value |-> NoRet,
   message |-> message]

(* a check may take any duration that leaves room for the sleep after it *)
CheckDurations == {d \in Durations : now + d + PollInterval <= MaxTime}

(* what server_show_libcloud(uuid) can do: the remote call raises, or it   *)
(* answers with one of the listings                                        *)
PasswordStates ==
  {"unset"} \cup { c.adminPass : c \in { r \in CreateResponses :
                                          ~getattr_raises(r, "adminPass") } }
ShowAnswers ==
  [uuid \in ServerIds |-> [password \in PasswordStates |->
     { server_show_libcloud(listing, uuid, password) : listing \in Listings }]]
ShowResults(uuid) ==
  { RemoteError(m) : m \in RemoteMessages } \cup ShowAnswers[uuid][self_password]

(* boot: try: return self.server_show_libcloud(self.uuid)                  *)
(*       except Exception as exc: log.debug('...{0}'.format(exc))          *)
boot_check ==
  /\ pc = "check"
  /\ op = "boot"
  /\ trycount < MaxTries
  /\ \E d \in CheckDurations, r \in ShowResults(self_uuid) :
       Attempt(r, IF r.raised THEN FALSE ELSE boot_ready(r.value), d,
               r.message)

(* volume_attach / volume_detach:                                          *)
(*   try: response = self._volume_get(volume['id'])                        *)
(*        if response['status'] == <target>: return response               *)
(*   except Exception as exc: log.debug('...{0}'.format(name))             *)
volume_check ==
  /\ pc = "check"
  /\ op \in {"volume_attach", "volume_detach"}
  /\ trycount < MaxTries
  /\ \E d \in CheckDurations :
       \/ \E message \in RemoteMessages :
            Attempt(RemoteError(message), FALSE, d, name_arg)
       \/ \E status \in VolumeStatuses :
            Attempt([raised |-> FALSE, exc |-> "none", message |-> NoText,
                     value |-> volume_get(volume.id, status)],
                    status = Target(op), d, name_arg)

(* except handler: time.sleep(1) *)
sleep ==
  /\ pc = "sleep"
  /\ now' = now + PollInterval
  /\ sleeps' = sleeps + 1
  /\ pc' = "test"
  /\ UNCHANGED <<op, timeout, start, trycount, polling, issued, fails, durs,
                 last, outcome, ret, arg, self_uuid, self_password,
                 calls, prev, volume, server_map, response,
                 name_arg, latest_adminPass>>

(* except handler: if time.time() - start > timeout: return False *)
timeout_test ==
  /\ pc = "test"
  /\ IF Expired(now - start, timeout)
     THEN pc' = "done" /\ outcome' = "TimedOut" /\ ret' = FalseRet
     ELSE pc' = "check" /\ UNCHANGED <<outcome, ret>>
  /\ UNCHANGED <<op, timeout, now, start, trycount, polling, issued, sleeps,
                 fails, durs, last, arg, self_uuid, self_password,
                 calls, prev, volume, server_map, response,
                 name_arg, latest_adminPass>>

(* server_list_detailed() called directly *)
list_detailed ==
  \E listing \in Listings :
    /\ Enter("server_list_detailed", 0)
    /\ arg' = listing
    /\ pc' = "done"
    /\ outcome' = "Returned"
    /\ ret' = [kind |-> "servers", value |-> server_list_detailed(listing)]
    /\ polling' = FALSE
    /\ issued' = 0
    /\ start' = 0
    /\ trycount' = 0
    /\ volume' = NoRet
    /\ server_map' = <<>>
    /\ name_arg' = NoText
    /\ UNCHANGED <<self_uuid, self_password, calls, response,
                       latest_adminPass>>

(* server_show_libcloud(uuid) called directly *)
show_libcloud ==
  \E uuid \in ServerIds :
   \E r \in ShowResults(uuid) :
        /\ Enter("server_show_libcloud", 0)
        /\ arg' = {}
        /\ pc' = "done"
        /\ outcome' = IF r.raised THEN "Raised" ELSE "Returned"
        /\ ret' = r.value
        /\ polling' = FALSE
        /\ issued' = 0
        /\ start' = 0
        /\ trycount' = 0
        /\ volume' = NoRet
        /\ server_map' = <<>>
        /\ name_arg' = NoText
        /\ UNCHANGED <<self_uuid, self_password, calls, response,
                       latest_adminPass>>

Next ==
  \/ boot
  \/ volume_attach
  \/ volume_detach
  \/ boot_check
  \/ volume_check
  \/ sleep
  \/ timeout_test
  \/ list_detailed
  \/ show_libcloud

Spec == Init /\ [][Next]_vars

(* ------------------------- sanity of the model ------------------------- *)
TypeOK ==
  /\ pc \in {"idle", "check", "sleep", "test", "done"}
  /\ now \in 0..MaxTime
  /\ trycount \in 0..MaxTries
  /\ outcome \in {"none", "Ready", "TimedOut", "Raised", "Returned"}
  /\ (pc = "sleep" => now + PollInterval <= MaxTime)

(* ------------------------------ claims --------------------------------- *)
VolumeOps == {"volume_attach", "volume_detach"}

(* C1: volume_attach / volume_detach return a volume mapping only from a   *)
(* status check that raised nothing and reported the target status         *)
(* ('in-use' for attach, 'available' for detach), and the mapping returned *)
(* is the one of that last check.                                          *)
C1_ReadyOnlyOnTarget ==
  (op \in VolumeOps /\ outcome = "Ready") =>
    /\ pc = "done"
    /\ last.kind = "ok"
    /\ ret.kind = "volume"
    /\ ret.status = last.status
    /\ (op = "volume_attach" => ret.status = "in-use")
    /\ (op = "volume_detach" => ret.status = "available")

C1_Witness ==
  /\ op = "volume_attach"
  /\ outcome = "Ready"
  /\ fails >= 1
  /\ trycount > fails + 1

(* C2: once polling has started no error of the status check reaches the   *)
(* caller: the call ends only by returning the observed state (Ready) or   *)
(* False (TimedOut), never by raising.                                     *)
C2_NoRaiseWhilePolling ==
  polling =>
    /\ outcome # "Raised"
    /\ (pc = "done" => outcome \in {"Ready", "TimedOut"})
    /\ (outcome = "TimedOut" => ret = FalseRet)
    /\ (outcome = "Ready" => ret.kind \in {"server", "volume"})

(* C3: a volume whose status checks all succeed without ever reporting the *)
(* target makes volume_attach / volume_detach return False: the loop is    *)
(* not still running once the deadline and the largest overshoot (one poll *)
(* interval plus one check) have passed.                                   *)
C3_StuckVolumeTimesOut ==
  (/\ polling
   /\ op \in VolumeOps
   /\ trycount > 0
   /\ fails = 0
   /\ outcome # "Ready"
   /\ now - start > timeout + PollInterval + MaxCheckDur)
    => outcome = "TimedOut"

(* C4: one time.sleep(1) separates any two consecutive status checks,      *)
(* whether the earlier one raised or reported a non-target status: at the  *)
(* top of the loop as many sleeps as attempts have been made, and a Ready  *)
(* return has slept once per attempt before the last.                      *)
C4_SleepBetweenAttempts ==
  polling =>
    /\ (pc = "check" => sleeps = trycount)
    /\ (outcome = "Ready" => sleeps = trycount - 1)

(* C5: no status check begins once time.time() - start exceeds timeout, so *)
(* none returns Ready after that, and False is returned with an overshoot  *)
(* of at most one poll interval plus one check duration.                   *)
C5_StopsAtDeadline ==
  polling =>
    /\ (pc = "check" => now - start <= timeout)
    /\ (outcome = "TimedOut" =>
          /\ now - start > timeout
          /\ now - start <= timeout + PollInterval + MaxCheckDur)

(* C6: with every check raising, the call returns False, at an elapsed     *)
(* time t with T <= t < T + interval + max_check_duration.                 *)
C6_AllFailingTimesOutInWindow ==
  (polling /\ pc = "done" /\ fails = trycount) =>
    /\ outcome = "TimedOut"
    /\ timeout <= now - start
    /\ now - start < timeout + PollInterval + MaxCheckDur

(* C7: after N failed checks with N * interval < timeout the loop goes on  *)
(* to attempt N+1, and a target state found there is returned after        *)
(* exactly N sleeps and N+1 checks.                                        *)
C7_ReadyAfterNFailures ==
  polling =>
    /\ (fails = trycount /\ trycount * PollInterval < timeout
          => outcome = "none")
    /\ (outcome = "Ready" /\ fails = trycount - 1 => sleeps = trycount - 1)

(* C8: boot returns the server mapping of the first attempt on which       *)
(* server_show_libcloud raises nothing, whatever the server's status; an   *)
(* attempt that raises is never returned, and an attempt on which the      *)
(* server is not listed yet (IndexError on the empty server_show answer)   *)
(* is retried: the call goes on to the sleep and ends, if it ends after    *)
(* such an attempt, with False at the deadline.                            *)
C8_BootReadyOnAnyState ==
  (op = "boot" /\ polling) =>
    /\ (last.kind = "ok" =>
          /\ pc = "done"
          /\ outcome = "Ready"
          /\ ret.kind = "server"
          /\ ret.id = self_uuid
          /\ ret.state = last.status
          /\ fails = trycount - 1)
    /\ (last.kind = "error" => outcome # "Ready")
    /\ (last.why = "IndexError" =>
          /\ last.kind = "error"
          /\ pc \in {"sleep", "test", "check", "done"}
          /\ (pc = "done" => outcome = "TimedOut"))
    /\ (outcome = "Ready" => last.kind = "ok")

C8_Witness ==
  /\ op = "boot"
  /\ outcome = "Ready"
  /\ ret.state = "BUILD"
  /\ fails >= 1

(* C9: a polling call starts from its own start time and its own attempt   *)
(* count, whatever the call before it did, and a call whose checks all     *)
(* raise, with the timeout and the check duration of the previous such     *)
(* call, returns False after the same number of attempts as that call.     *)
C9_InvocationsIndependent ==
  /\ (polling /\ pc = "check" /\ last = NoLast) =>
        trycount = 0 /\ start = now
  /\ (/\ polling
      /\ pc = "done"
      /\ fails = trycount
      /\ prev.allFailed
      /\ prev.op = op
      /\ prev.timeout = timeout
      /\ Uniform(durs, prev.dur)) =>
        /\ outcome = "TimedOut"
        /\ prev.outcome = "TimedOut"
        /\ trycount = prev.trycount

(* C10: server_list_detailed never finds an optional key: for every server *)
(* of the answer, whatever keys its __dict__ holds, the entry has empty    *)
(* 'OS-EXT-SRV-ATTR' and 'OS-EXT-STS' mappings and neither 'OS-DCF' nor    *)
(* 'security_groups'.                                                      *)
C10_OptionalFieldsNeverFound ==
  (op = "server_list_detailed" /\ outcome = "Returned") =>
    /\ ret.kind = "servers"
    /\ DOMAIN ret.value = {item.name : item \in arg}
    /\ \A n \in DOMAIN ret.value :
         /\ DOMAIN ret.value[n].srv_attr = {}
         /\ DOMAIN ret.value[n].sts = {}
         /\ DOMAIN ret.value[n].optional = {}

C10_Witness ==
  /\ op = "server_list_detailed"
  /\ outcome = "Returned"
  /\ \E item \in arg : DOMAIN item.dict = OptionalKeys
  /\ \E item \in arg : DOMAIN item.dict = {"OS-DCF:diskConfig", "security_groups"}

(* C11: a call that reaches its polling loop has issued its mutating     *)
(* request (servers.create, create_server_volume, delete_server_volume)    *)
(* exactly once, before the first status check, and the count stays one    *)
(* through every check, sleep and deadline test up to the Ready or False   *)
(* return; no status check is ever made by a call that issued none.        *)
C11_RequestIssuedOnce ==
  /\ (polling => issued = 1)
  /\ (op \in {"boot", "volume_attach", "volume_detach"} /\ issued = 0 =>
        trycount = 0 /\ last = NoLast /\ ~polling)
  /\ (outcome \in {"Ready", "TimedOut"} => issued = 1)

C11_Witness ==
  /\ polling
  /\ pc = "done"
  /\ outcome = "TimedOut"
  /\ trycount >= 3
  /\ fails >= 2
  /\ issued = 1

(* C12: volume_attach / volume_detach called for a volume that does not  *)
(* exist (volume_show returned False) or a server that does not exist      *)
(* (server_by_name returned the empty mapping) end with an error raised    *)
(* before polling, not with False, having issued no mutating request and   *)
(* made no status check.                                                   *)
C12_MissingLookupRaises ==
  (/\ op \in VolumeOps
   /\ (volume.kind = "False" \/ DOMAIN server_map = {})) =>
    /\ pc = "done"
    /\ outcome = "Raised"
    /\ ret.kind # "False"
    /\ ~polling
    /\ issued = 0
    /\ trycount = 0
    /\ last = NoLast

C12_Witness ==
  /\ op = "volume_attach"
  /\ volume.kind = "volume"
  /\ DOMAIN server_map = {}
  /\ outcome = "Raised"
  /\ issued = 0

(* C13, as claimed: boot has stored the created server's id and admin    *)
(* password when it polls, and after any boot whose servers.create         *)
(* answered, server_show_libcloud(uuid), for any uuid, returns             *)
(* extra.password equal to the admin password of that most recent boot;    *)
(* before the first boot it returns no extra.password.                     *)
C13_PasswordOfLatestBoot ==
  /\ (op = "boot" /\ polling) =>
        /\ response # NoResponse
        /\ self_uuid = response.id
        /\ self_password = response.adminPass
  /\ (op = "server_show_libcloud" /\ outcome = "Returned") =>
        /\ ret.kind = "server"
        /\ IF response = NoResponse
           THEN ~ret.has_password
           ELSE /\ ret.has_password
                /\ ~getattr_raises(response, "adminPass")
                /\ ret.password = response.adminPass

(* C13, amended: boot stores the created server's id, then its admin      *)
(* password when the servers.create answer carries one; when it carries    *)
(* none boot raises before polling, having issued its request, and         *)
(* self.password stays as it was.  What is stored stays, also when boot    *)
(* returns False.  server_show_libcloud(uuid), for any uuid, returns       *)
(* extra.password equal to the admin password of the latest boot whose     *)
(* answer carried one, and no extra.password before the first such boot.   *)
C13_PasswordOfLatestAnswerWithOne ==
  /\ self_uuid = response.id
  /\ self_password = latest_adminPass
  /\ (op = "boot" /\ polling) =>
        /\ ~getattr_raises(response, "adminPass")
        /\ self_password = response.adminPass
  /\ (op = "boot" /\ getattr_raises(response, "adminPass")) =>
        pc = "done" /\ outcome = "Raised" /\ ~polling /\ issued = 1
  /\ (op = "server_show_libcloud" /\ outcome = "Returned") =>
        /\ ret.kind = "server"
        /\ IF latest_adminPass = "unset"
           THEN ~ret.has_password
           ELSE ret.has_password /\ ret.password = latest_adminPass

C13_Witness ==
  /\ op = "server_show_libcloud"
  /\ outcome = "Returned"
  /\ calls = 2
  /\ getattr_raises(response, "adminPass")
  /\ self_uuid = response.id
  /\ ret.id # self_uuid
  /\ ret.has_password
  /\ ret.password = "pw1"
  /\ latest_adminPass = "pw1"

====
